---- MODULE Spec2Model ----
\* Model of blob_image_downloader.py: BlobImageInterceptor (the two
\* collectors, the scroll loop, close) and main, together with the browsed
\* page that fills the selenium-wire request log and window.interceptedBlobs.
EXTENDS Integers, Sequences, FiniteSets, TLC

\* ---------------------------------------------------------------- bounds
MaxScrollsBound == 1      \* max_scrolls ranges over 0..MaxScrollsBound
MaxPageEvents == 2        \* network exchanges plus createObjectURL calls in a run
NumBodies == 3            \* distinct one-byte payloads 0..NumBodies-1
HashLen == 3              \* digits of a digest (hexdigest has 32)
PrefixLen == 1            \* digits of the digest kept in a filename (8 in the source)

HEIGHT_PER_SCROLL == 1000

Bodies == 0 .. (NumBodies - 1)
MaxScrollsSet == 0 .. MaxScrollsBound
\* document.body.scrollHeight as the page may report it: a page shorter
\* than one scroll step, and one taller than every offset the loop can reach
Heights == {HEIGHT_PER_SCROLL, (MaxScrollsBound + 2) * HEIGHT_PER_SCROLL}
\* what the page serves and what it hands to createObjectURL; the payload of
\* a non-image is never looked at, so one payload stands for all of them
NetTypes == {"image/jpeg", "text/html"}
BlobTypes == {"image/png", "text/plain"}
PayloadsOf(t) == IF t \in {"text/html", "text/plain"} THEN {0} ELSE Bodies

\* ------------------------------------------------------- pure functions
\* hashlib.md5(body).hexdigest(): a fixed-width digit string of the bytes
MD5(body) == [k \in 1 .. HashLen |-> (body \div (2 ^ (HashLen - k))) % 2]

\* image_hash[:8]
Hash8(h) == SubSeq(h, 1, PrefixLen)

\* FileReader.readAsDataURL on a one-byte blob: two sextets (then "==")
B64Encode(body) == <<body \div 4, (body % 4) * 16>>
\* base64.b64decode of the two sextets
B64Decode(s) == s[1] * 4 + (s[2] \div 16)

\* reader.result: "data:<type>;base64,<payload>"
DataURL(type, body) == [mime |-> type, payload |-> B64Encode(body)]

\* Content-Type .startswith('image/')  /  data.startswith('data:image')
IsImageType(t) == t \in {"image/png", "image/jpeg", "image/gif", "image/webp"}

\* extension chosen by substring match on the content type
ExtOf(t) == IF t = "image/png" THEN "png"
            ELSE IF t = "image/gif" THEN "gif"
            ELSE IF t = "image/webp" THEN "webp"
            ELSE "jpg"

\* Image.open(BytesIO(body)) succeeds: payload 2 is not an image file
Decodable(body) == body # 2

FileName(source, counter, h, ext) ==
    [source |-> source, counter |-> counter, hash8 |-> Hash8(h), ext |-> ext]

\* ----------------------------------------------------------------- state
VARIABLES
    pc,               \* position of the single control thread
    driver,           \* "none" (attribute absent), "open", "closed"
    max_scrolls,      \* argument of scroll_and_capture
    captured_blobs,   \* self.captured_blobs
    image_counter,    \* self.image_counter
    written,          \* files image.save completed, in order: [name, hash]
    requests,         \* driver.requests (selenium-wire log, append only)
    interceptedBlobs, \* window.interceptedBlobs
    nextId,           \* number of entries the hook has pushed so far, plus 1
    pending,          \* ids of the pushed valid image entries not yet looked up
    n,                \* length of the list the running collector iterates
    i,                \* index of the collector's for loop
    scroll_count, scroll_height, last_height,
    inFinal,          \* the pass after loop exit is running or has run
    loopPasses, finalPasses,  \* collection passes started in / after the loop
    passError,        \* what capture_blob_images' except caught in this pass
    cleared,          \* this invocation executed window.interceptedBlobs = []
    readMark,         \* highest id of an entry returned to some earlier pass
    reRead,           \* a pass was handed an entry an earlier pass had read
    finalReadMark,    \* entries pushed when the final pass read the buffer
    topCause,         \* what entered main's except clauses
    cmdAfterQuit      \* a driver command was issued on a closed session

vars == <<pc, driver, max_scrolls, captured_blobs, image_counter, written,
          requests, interceptedBlobs, nextId, pending, n, i, scroll_count,
          scroll_height, last_height, inFinal, loopPasses, finalPasses,
          passError, cleared, readMark, reRead, finalReadMark,
          topCause, cmdAfterQuit>>

pageVars == <<requests, interceptedBlobs, nextId>>
storeVars == <<captured_blobs, image_counter, written>>
histVars == <<passError, cleared, pending, readMark, reRead, finalReadMark>>
localVars == <<n, i, scroll_count, scroll_height, last_height>>
countVars == <<loopPasses, finalPasses>>

\* the list capture_blob_images iterates: what the read script returned
blobs == SubSeq(interceptedBlobs, 1, n)

\* statements inside main's try block
TryBody == {"setup", "get", "inject", "measure0", "loop_test", "net_begin",
            "net_loop", "blob_read", "blob_loop", "blob_except",
            "blob_ret", "scroll", "measure", "check_height", "report",
            "prompt"}

Init ==
    /\ pc = "setup"
    /\ driver = "none"
    /\ max_scrolls \in MaxScrollsSet
    /\ captured_blobs = {}
    /\ image_counter = 0
    /\ written = <<>>
    /\ requests = <<>>
    /\ interceptedBlobs = <<>>
    /\ nextId = 1
    /\ pending = {}
    /\ n = 0
    /\ i = 1
    /\ scroll_count = 0
    /\ scroll_height = 0
    /\ last_height = 0
    /\ inFinal = FALSE
    /\ loopPasses = 0
    /\ finalPasses = 0
    /\ passError = "none"
    /\ cleared = FALSE
    /\ readMark = 0
    /\ reRead = FALSE
    /\ finalReadMark = 0
    /\ topCause = "none"
    /\ cmdAfterQuit = FALSE

\* a driver command: records a use of the session after quit
Cmd == cmdAfterQuit' = (cmdAfterQuit \/ driver = "closed")

\* an exception leaving the try block: the frames of scroll_and_capture and
\* of the collectors are unwound (their locals are gone), the matching
\* except clause of main prints, and control is at the finally clause
RaiseTop(cause) ==
    /\ pc' = "finally"
    /\ topCause' = cause
    /\ n' = 0
    /\ i' = 1
    /\ scroll_count' = 0
    /\ scroll_height' = 0
    /\ last_height' = 0
    /\ UNCHANGED <<driver, max_scrolls, storeVars, pageVars, inFinal,
                   histVars, countVars>>

\* ------------------------------------------------------------ main, setup
\* wire_webdriver.Chrome(...): the session is created and assigned, or the
\* constructor raises and the attribute stays absent
setup_driver ==
    /\ pc = "setup"
    /\ UNCHANGED cmdAfterQuit
    /\ \/ /\ driver' = "open"
          /\ pc' = "get"
          /\ UNCHANGED <<max_scrolls, storeVars, pageVars, localVars,
                         inFinal, histVars, countVars, topCause>>
       \/ RaiseTop("setup")

\* driver.get(url); time.sleep(3)
driver_get ==
    /\ pc = "get"
    /\ Cmd
    /\ \/ /\ pc' = "inject"
          /\ UNCHANGED <<driver, max_scrolls, storeVars, pageVars, localVars,
                         inFinal, histVars, countVars, topCause>>
       \/ RaiseTop("driver")

\* execute_script(js_code): window.interceptedBlobs = [] and the hook
inject_blob_interceptor ==
    /\ pc = "inject"
    /\ Cmd
    /\ \/ /\ pc' = "measure0"
          /\ UNCHANGED <<driver, max_scrolls, storeVars, pageVars, localVars,
                         inFinal, histVars, countVars, topCause>>
       \/ RaiseTop("driver")

\* last_height = scrollHeight; scroll_count = 0; scroll_height = 0
measure_initial ==
    /\ pc = "measure0"
    /\ Cmd
    /\ \/ /\ \E h \in Heights : last_height' = h
          /\ scroll_count' = 0
          /\ scroll_height' = 0
          /\ pc' = "loop_test"
          /\ UNCHANGED <<driver, max_scrolls, storeVars, pageVars, n, i,
                         inFinal, histVars, countVars, topCause>>
       \/ RaiseTop("driver")

\* ------------------------------------------------------------ scroll loop
LoopCondOffByOne == scroll_count <= max_scrolls

\* while scroll_count < max_scrolls
LoopCond == scroll_count < max_scrolls

\* the while test: into the body, or out to the final capture
loop_test ==
    /\ pc = "loop_test"
    /\ pc' = "net_begin"
    /\ inFinal' = ~LoopCond
    /\ UNCHANGED <<driver, max_scrolls, storeVars, pageVars, localVars,
                   histVars, countVars, topCause, cmdAfterQuit>>

\* scroll_height += HEIGHT_PER_SCROLL; window.scrollTo(0, scroll_height)
scroll ==
    /\ pc = "scroll"
    /\ Cmd
    /\ \/ /\ scroll_height' = scroll_height + HEIGHT_PER_SCROLL
          /\ pc' = "measure"
          /\ UNCHANGED <<driver, max_scrolls, storeVars, pageVars, n, i,
                         scroll_count, last_height, inFinal, histVars,
                         countVars, topCause>>
       \/ RaiseTop("driver")

\* time.sleep(scroll_pause); last_height = scrollHeight
measure ==
    /\ pc = "measure"
    /\ Cmd
    /\ \/ /\ \E h \in Heights : last_height' = h
          /\ pc' = "check_height"
          /\ UNCHANGED <<driver, max_scrolls, storeVars, pageVars, n, i,
                         scroll_count, scroll_height, inFinal, histVars,
                         countVars, topCause>>
       \/ RaiseTop("driver")

CoversStrict == scroll_height > last_height

\* if scroll_height >= last_height
Covers == scroll_height >= last_height

\* break, or scroll_count += 1 and back to the while test
check_height ==
    /\ pc = "check_height"
    /\ IF Covers
         THEN /\ inFinal' = TRUE
              /\ pc' = "net_begin"
              /\ UNCHANGED scroll_count
         ELSE /\ scroll_count' = scroll_count + 1
              /\ pc' = "loop_test"
              /\ UNCHANGED inFinal
    /\ UNCHANGED <<driver, max_scrolls, storeVars, pageVars, n, i,
                   scroll_height, last_height, histVars, countVars, topCause,
                   cmdAfterQuit>>

\* the two prints that end scroll_and_capture; its frame is left
report ==
    /\ pc = "report"
    /\ pc' = "prompt"
    /\ scroll_count' = 0
    /\ scroll_height' = 0
    /\ last_height' = 0
    /\ UNCHANGED <<driver, max_scrolls, storeVars, pageVars, n, i, inFinal,
                   histVars, countVars, topCause, cmdAfterQuit>>

\* input(...) returns, or raises EOFError on a closed stdin
prompt ==
    /\ pc = "prompt"
    /\ UNCHANGED cmdAfterQuit
    /\ \/ /\ pc' = "finally"
          /\ UNCHANGED <<driver, max_scrolls, storeVars, pageVars, localVars,
                         inFinal, histVars, countVars, topCause>>
       \/ RaiseTop("prompt")

\* KeyboardInterrupt delivered to the control thread inside the try block;
\* the collectors' "except Exception" clauses do not catch it
Interrupt ==
    /\ pc \in TryBody
    /\ UNCHANGED cmdAfterQuit
    /\ RaiseTop("KeyboardInterrupt")

closeNoQuit ==
    /\ pc = "finally"
    /\ pc' = "exit"
    /\ UNCHANGED <<driver, max_scrolls, storeVars, pageVars, localVars,
                   inFinal, histVars, countVars, topCause, cmdAfterQuit>>

\* finally: interceptor.close(): if hasattr(self, 'driver'): driver.quit(),
\* which ends the browser (its page) and drops selenium-wire's request log
close ==
    /\ pc = "finally"
    /\ pc' = "exit"
    /\ IF driver # "none"
         THEN /\ driver' = "closed"
              /\ requests' = <<>>
              /\ interceptedBlobs' = <<>>
         ELSE UNCHANGED <<driver, requests, interceptedBlobs>>
    /\ UNCHANGED <<max_scrolls, storeVars, nextId, localVars, inFinal,
                   histVars, countVars, topCause, cmdAfterQuit>>

\* ------------------------------------------------------- dedup and naming
UnseenAlways(h) == TRUE

\* if image_hash not in self.captured_blobs
Unseen(h) == h \notin captured_blobs

NextCounterStuck(c) == c

\* self.image_counter += 1
NextCounter(c) == c + 1

\* image.save(filepath) completed; the counter moves on
Saved(source, h, type) ==
    /\ written' = Append(written,
                         [name |-> FileName(source, image_counter, h, ExtOf(type)),
                          hash |-> h])
    /\ image_counter' = NextCounter(image_counter)

\* ------------------------------------------------ capture_network_images
\* for request in self.driver.requests: the list is fetched once
net_begin ==
    /\ pc = "net_begin"
    /\ n' = Len(requests)
    /\ i' = 1
    /\ pc' = "net_loop"
    /\ IF inFinal
         THEN finalPasses' = finalPasses + 1 /\ UNCHANGED loopPasses
         ELSE loopPasses' = loopPasses + 1 /\ UNCHANGED finalPasses
    /\ UNCHANGED <<driver, max_scrolls, storeVars, pageVars, scroll_count,
                   scroll_height, last_height, inFinal, histVars, topCause,
                   cmdAfterQuit>>

\* one iteration of the for loop; the try/except is inside the loop, so a
\* failing Image.open or image.save only skips this request
net_item ==
    /\ pc = "net_loop"
    /\ i <= n
    /\ LET r == requests[i]
           h == MD5(r.body)
       IN IF IsImageType(r.ctype) /\ Unseen(h)
            THEN /\ captured_blobs' = captured_blobs \cup {h}
                 /\ IF Decodable(r.body)
                      THEN \/ Saved("network_image", h, r.ctype)
                           \/ UNCHANGED <<written, image_counter>>
                      ELSE UNCHANGED <<written, image_counter>>
            ELSE UNCHANGED storeVars
    /\ i' = i + 1
    /\ UNCHANGED <<pc, driver, max_scrolls, pageVars, n, scroll_count,
                   scroll_height, last_height, inFinal, histVars, countVars,
                   topCause, cmdAfterQuit>>

\* return captured_count; the caller goes on to capture_blob_images
net_return ==
    /\ pc = "net_loop"
    /\ i > n
    /\ pc' = "blob_read"
    /\ n' = 0
    /\ i' = 1
    /\ UNCHANGED <<driver, max_scrolls, storeVars, pageVars, scroll_count,
                   scroll_height, last_height, inFinal, histVars, countVars,
                   topCause, cmdAfterQuit>>

\* --------------------------------------------------- capture_blob_images
IdsOf(buf) == {buf[k].id : k \in 1 .. Len(buf)}

\* blobs = execute_script("return window.interceptedBlobs || [];")
blob_read ==
    /\ pc = "blob_read"
    /\ Cmd
    /\ i' = 1
    /\ cleared' = FALSE
    /\ finalReadMark' = IF inFinal THEN nextId - 1 ELSE finalReadMark
    /\ \/ /\ n' = Len(interceptedBlobs)
          /\ reRead' = (reRead \/ \E id \in IdsOf(interceptedBlobs) :
                                       id <= readMark)
          /\ readMark' = IF interceptedBlobs = <<>> THEN readMark
                                                    ELSE nextId - 1
          /\ passError' = "none"
          /\ pc' = "blob_loop"
       \/ /\ n' = 0
          /\ passError' = "script"
          /\ pc' = "blob_except"
          /\ UNCHANGED <<reRead, readMark>>
    /\ UNCHANGED <<driver, max_scrolls, storeVars, pageVars, scroll_count,
                   scroll_height, last_height, inFinal, pending, countVars,
                   topCause>>

\* one iteration of the for loop; the only try/except encloses the whole
\* loop and the clear, so a failing Image.open or image.save leaves the loop
blob_item ==
    /\ pc = "blob_loop"
    /\ i <= n
    /\ LET b == blobs[i]
           image_data == B64Decode(b.data.payload)
           h == MD5(image_data)
       IN IF IsImageType(b.data.mime)
            THEN /\ pending' = pending \ {b.id}
                 /\ IF Unseen(h)
                      THEN /\ captured_blobs' = captured_blobs \cup {h}
                           /\ \/ /\ Decodable(image_data)
                                 /\ Saved("blob_image", h, b.type)
                                 /\ i' = i + 1
                                 /\ UNCHANGED <<pc, passError>>
                              \/ /\ UNCHANGED <<written, image_counter, i>>
                                 /\ passError' = IF Decodable(image_data)
                                                    THEN "save"
                                                    ELSE "decode"
                                 /\ pc' = "blob_except"
                      ELSE /\ i' = i + 1
                           /\ UNCHANGED <<storeVars, pc, passError>>
            ELSE /\ i' = i + 1
                 /\ UNCHANGED <<storeVars, pc, passError, pending>>
    /\ UNCHANGED <<driver, max_scrolls, pageVars, n, scroll_count,
                   scroll_height, last_height, inFinal, cleared, readMark,
                   reRead, finalReadMark, countVars, topCause, cmdAfterQuit>>

\* execute_script("window.interceptedBlobs = [];") after the loop
blob_clear ==
    /\ pc = "blob_loop"
    /\ i > n
    /\ Cmd
    /\ \/ /\ interceptedBlobs' = <<>>
          /\ cleared' = TRUE
          /\ pc' = "blob_ret"
          /\ UNCHANGED passError
       \/ /\ passError' = "script"
          /\ pc' = "blob_except"
          /\ UNCHANGED <<interceptedBlobs, cleared>>
    /\ UNCHANGED <<driver, max_scrolls, storeVars, requests, nextId, pending,
                   n, i, scroll_count, scroll_height, last_height, inFinal,
                   readMark, reRead, finalReadMark, countVars, topCause>>

blob_except_reraise ==
    /\ pc = "blob_except"
    /\ UNCHANGED cmdAfterQuit
    /\ RaiseTop("blob_pass")

\* except Exception as e: print(...)
blob_except ==
    /\ pc = "blob_except"
    /\ pc' = "blob_ret"
    /\ UNCHANGED <<driver, max_scrolls, storeVars, pageVars, localVars,
                   inFinal, histVars, countVars, topCause, cmdAfterQuit>>

\* return captured_count: to the scroll of this iteration, or, in the final
\* capture, to the closing prints
blob_return ==
    /\ pc = "blob_ret"
    /\ pc' = IF inFinal THEN "report" ELSE "scroll"
    /\ n' = 0
    /\ i' = 1
    /\ UNCHANGED <<driver, max_scrolls, storeVars, pageVars, scroll_count,
                   scroll_height, last_height, inFinal, histVars, countVars,
                   topCause, cmdAfterQuit>>

\* ------------------------------------------------------------- the page
\* the page is loaded and a collector can still observe what it does
PageLoaded == pc \in TryBody \ {"setup", "get", "report", "prompt"}
HookInstalled == PageLoaded /\ pc # "inject"

\* the page completes a network exchange; selenium-wire logs it
PageRequest ==
    /\ PageLoaded
    /\ Len(requests) + (nextId - 1) < MaxPageEvents
    /\ \E t \in NetTypes : \E body \in PayloadsOf(t) :
          requests' = Append(requests, [ctype |-> t, body |-> body])
    /\ UNCHANGED <<pc, driver, max_scrolls, storeVars, interceptedBlobs,
                   nextId, localVars, inFinal, histVars, countVars, topCause,
                   cmdAfterQuit>>

\* reader.onloadend of the hooked URL.createObjectURL pushes an entry
PagePush ==
    /\ HookInstalled
    /\ Len(requests) + (nextId - 1) < MaxPageEvents
    /\ \E t \in BlobTypes : \E body \in PayloadsOf(t) :
          /\ interceptedBlobs' = Append(interceptedBlobs,
              [id |-> nextId, data |-> DataURL(t, body), type |-> t])
          /\ pending' = IF IsImageType(t) /\ Decodable(body)
                           THEN pending \cup {nextId}
                           ELSE pending
    /\ nextId' = nextId + 1
    /\ UNCHANGED <<pc, driver, max_scrolls, storeVars, requests, localVars,
                   inFinal, passError, cleared, readMark, reRead,
                   finalReadMark, countVars, topCause, cmdAfterQuit>>

\* ---------------------------------------------------------- specification
Next ==
    \/ setup_driver
    \/ driver_get
    \/ inject_blob_interceptor
    \/ measure_initial
    \/ loop_test
    \/ net_begin
    \/ net_item
    \/ net_return
    \/ blob_read
    \/ blob_item
    \/ blob_clear
    \/ blob_except
    \/ blob_return
    \/ scroll
    \/ measure
    \/ check_height
    \/ report
    \/ prompt
    \/ Interrupt
    \/ close
    \/ PageRequest
    \/ PagePush

Spec == Init /\ [][Next]_vars

\* the control thread keeps running: every statement of main, of
\* scroll_and_capture and of the collectors is eventually executed
Step ==
    \/ setup_driver \/ driver_get \/ inject_blob_interceptor
    \/ measure_initial \/ loop_test \/ net_begin \/ net_item \/ net_return
    \/ blob_read \/ blob_item \/ blob_clear \/ blob_except \/ blob_return
    \/ scroll \/ measure \/ check_height \/ report

FairSpec == Spec /\ WF_vars(Step)

Files == 1 .. Len(written)

\* C1: no two files written in a run have the same content hash, whichever
\* collector wrote them and however many passes saw the payload
C1_NoTwoFilesShareHash ==
    \A a, b \in Files : a # b => written[a].hash # written[b].hash

\* a payload already saved from the network log is met again in the blob
\* buffer and skipped: one file holds it
C1_Witness ==
    /\ pc = "blob_loop"
    /\ i > 1
    /\ LET b == blobs[i - 1]
           h == MD5(B64Decode(b.data.payload))
       IN /\ IsImageType(b.data.mime)
          /\ Cardinality({a \in Files : written[a].hash = h}) = 1
          /\ \E a \in Files : /\ written[a].hash = h
                              /\ written[a].name.source = "network_image"

\* C2: a malformed image is skipped and the rest of the pass goes on: when a
\* collector returns, every decodable image of the list it iterated has had
\* its hash looked up, in the network collector and in the blob collector
C2_BadImageDoesNotAbortPass ==
    /\ (pc = "net_loop" /\ i > n) =>
          \A k \in 1 .. n :
              (IsImageType(requests[k].ctype) /\ Decodable(requests[k].body))
                  => MD5(requests[k].body) \in captured_blobs
    /\ (pc = "blob_ret" /\ passError = "decode") =>
          \A k \in 1 .. n :
              (/\ IsImageType(blobs[k].data.mime)
               /\ Decodable(B64Decode(blobs[k].data.payload)))
                  => blobs[k].id \notin pending

InScroll == {"loop_test", "net_begin", "net_loop", "blob_read", "blob_loop",
             "blob_except", "blob_ret", "scroll", "measure", "check_height",
             "report"}

\* C3: scroll_and_capture makes at most max_scrolls passes in the loop and
\* one after it, so at most max_scrolls + 1, whatever heights are measured,
\* and it ends
C3_Bound ==
    /\ loopPasses <= max_scrolls
    /\ finalPasses <= 1
    /\ loopPasses + finalPasses <= max_scrolls + 1
    /\ pc \in {"report", "prompt"} => finalPasses = 1

C3_PassesBounded == [] C3_Bound /\ <>(pc \notin TryBody \ {"prompt"})

\* the height grew at every measurement: all max_scrolls loop passes ran,
\* then the final one
C3_Witness ==
    /\ pc = "report"
    /\ max_scrolls = MaxScrollsBound
    /\ scroll_count = max_scrolls
    /\ loopPasses = max_scrolls
    /\ finalPasses = 1
    /\ scroll_height < last_height

C5_FilenamesUnique ==
    \A a, b \in Files :
        a # b => /\ written[a].name # written[b].name
                 /\ written[a].name.counter # written[b].name.counter

\* two files of one collector and one extension whose hashes differ and
\* share the prefix kept in the name
C5_Witness ==
    /\ \E a, b \in Files :
          /\ written[a].hash # written[b].hash
          /\ written[a].name.hash8 = written[b].name.hash8
          /\ written[a].name.source = written[b].name.source
          /\ written[a].name.ext = written[b].name.ext

\* C6: when main has exited, a session that was created has been quit, and
\* no driver command was issued on a closed session
C6_BrowserClosedOnExit ==
    /\ pc = "exit" => driver # "open"
    /\ ~cmdAfterQuit

\* the operator interrupted the capture loop and the session was closed
C6_Witness ==
    /\ pc = "exit"
    /\ driver = "closed"
    /\ topCause = "KeyboardInterrupt"
    /\ loopPasses >= 1

\* C7: every invocation of capture_blob_images ends with the page buffer
\* reset, and no pass is handed an entry an earlier pass had read
C7_BufferClearedAfterPass ==
    /\ (pc = "blob_ret" /\ passError # "script") => cleared
    /\ ~reRead

\* C8: an exception inside capture_blob_images is caught there: it never
\* enters main's except clauses, the collector returns, and the iteration
\* goes on to its scroll with the scroll counter untouched
C8_PassFailureContained ==
    /\ [](topCause # "blob_pass")
    /\ [][(pc = "blob_except" /\ pc' \notin {"blob_except", "finally"})
          => pc' = "blob_ret"]_vars
    /\ [][(/\ pc = "blob_ret"
           /\ passError # "none"
           /\ ~inFinal
           /\ pc' \notin {"blob_ret", "finally"})
          => (pc' = "scroll" /\ scroll_count' = scroll_count)]_vars

\* the script reading the buffer failed, and the same iteration has
\* scrolled, waited and measured the height
C8_Witness ==
    /\ pc = "check_height"
    /\ passError = "script"
    /\ ~cleared
    /\ topCause = "none"

\* C9: the dedup set holds exactly the hashes of the files written, so its
\* size, the counter and the number of files agree
C9_DedupSetMatchesFiles ==
    /\ captured_blobs = {written[a].hash : a \in Files}
    /\ Cardinality(captured_blobs) = image_counter
    /\ image_counter = Len(written)

\* C10: when scroll_and_capture has ended, with no script or save failure
\* in its final pass, every valid image entry pushed before the final read
\* of the buffer has had its hash looked up (written, or found to be a
\* duplicate)
C10_NoBlobLost ==
    (pc = "report" /\ passError \in {"none", "decode"}) =>
        \A id \in pending : id > finalReadMark

====
